---- MODULE Spec2Model ----
\* Model of EsPredicate (be/src/exec/es/es_predicate.cpp): the translation of
\* one conjunct expression tree into a flat list of pushable predicate
\* descriptors.  The recursion of build_disjuncts_list over the tree is
\* modelled by a stack of pending nodes (paths into the tree): the head of the
\* stack is the node the next recursive invocation classifies.
EXTENDS Integers, Sequences, FiniteSets, TLC

\* ---------------------------------------------------------------- bounds
MaxCalls == 2       \* build_disjuncts_list() calls on one EsPredicate
MaxLeaves == 4      \* leaves of the OR/AND trees over the core leaves
MaxSetLen == 3      \* elements of an IN predicate's hybrid set
MaxSlots == 2       \* slots of the tuple descriptor

\* ------------------------------------------------------ expression nodes
NoPath == <<>>

\* One Expr node: node_type(), op(), fn().name.function_name, type().type,
\* SlotRef::slot_id(), the literal payload, InPredicate::hybird_set(),
\* InPredicate::is_not_in() and children().
Node(nt, o, f, ty, sid, v, hs, notin, ch) ==
    [node_type |-> nt, op |-> o, fn |-> f, type |-> ty, slot_id |-> sid,
     val |-> v, set |-> hs, is_not_in |-> notin, children |-> ch]

SlotRefNode(sid, ty) ==
    Node("SLOT_REF", "INVALID_OPCODE", "", ty, sid, "", <<>>, FALSE, <<>>)
LiteralNode(nt, ty, v) ==
    Node(nt, "INVALID_OPCODE", "", ty, 0, v, <<>>, FALSE, <<>>)
CastNode(ty, child) ==
    Node("CAST_EXPR", "CAST", "", ty, 0, "", <<>>, FALSE, <<child>>)
CallNode(f, ty, v, ch) ==
    Node("FUNCTION_CALL", "INVALID_OPCODE", f, ty, 0, v, <<>>, FALSE, ch)
BinaryNode(o, ch) ==
    Node("BINARY_PRED", o, "", "BOOLEAN", 0, "", <<>>, FALSE, ch)
InNode(o, notin, hs, ch) ==
    Node("IN_PRED", o, "", "BOOLEAN", 0, "", hs, notin, ch)
CompoundNode(o, ch) ==
    Node("COMPOUND_PRED", o, "", "BOOLEAN", 0, "", <<>>, FALSE, ch)
OtherNode(nt) ==
    Node(nt, "INVALID_OPCODE", "", "BOOLEAN", 0, "", <<>>, FALSE, <<>>)

\* --------------------------------------------------------------- schema
SlotTypes == {"INT", "VARCHAR", "DATE"}
ColNames == {"a", "b"}
SlotIds == 1..MaxSlots

SlotDescriptors == [id : SlotIds, col_name : ColNames, type : SlotTypes]

\* TupleDescriptor::slots(): a list of slot descriptors with distinct ids.
TupleDescs ==
    UNION {{s \in [1..n -> SlotDescriptors] :
              \A i, j \in 1..n : i # j => s[i].id # s[j].id} : n \in 0..MaxSlots}

\* Two slots of the same name and different ids.
CoreTupleDesc ==
    <<[id |-> 1, col_name |-> "a", type |-> "INT"],
      [id |-> 2, col_name |-> "a", type |-> "VARCHAR"]>>


\* ---------------------------------------------------------- input trees
\* The type the planner gives a column reference is the type of its slot.
PlanType(td, sid) ==
    IF \E i \in 1..Len(td) : td[i].id = sid
    THEN (CHOOSE s \in {td[i] : i \in 1..Len(td)} : s.id = sid).type
    ELSE "INT"

\* Ids of the column references of the input trees: MaxSlots + 1 is in no
\* tuple descriptor.
RefIds == 1..(MaxSlots + 1)

SlotRefs(td) == {SlotRefNode(sid, PlanType(td, sid)) : sid \in RefIds}

IntLit == LiteralNode("INT_LITERAL", "INT", "5")
StrLit == LiteralNode("STRING_LITERAL", "VARCHAR", "foo%")
NullLit == LiteralNode("NULL_LITERAL", "NULL_TYPE", "NULL")
ConcatCall == CallNode("concat", "VARCHAR", "ab", <<StrLit, StrLit>>)

ValidQuery == "{\"match\":{\"a\":\"b\"}}"
BadQuery == "{bad"
ValidQueryLit == LiteralNode("STRING_LITERAL", "VARCHAR", ValidQuery)
BadQueryLit == LiteralNode("STRING_LITERAL", "VARCHAR", BadQuery)

BinOps == {"LT", "GT"}
CompoundOps == {"COMPOUND_OR", "COMPOUND_AND"}
CastTypes == {"INT", "CHAR", "DATETIME"}

Operands(td) == SlotRefs(td) \cup {IntLit, StrLit, NullLit, ConcatCall}

Slot1(td) == SlotRefNode(1, PlanType(td, 1))

BinaryLeaves(td) ==
    {BinaryNode(o, <<x, y>>) : o \in BinOps, x \in Operands(td), y \in Operands(td)}
    \cup {BinaryNode("GT", <<>>), BinaryNode("GT", <<Slot1(td)>>),
          BinaryNode("GT", <<Slot1(td), IntLit, IntLit>>)}

LikeNode(ch) == CallNode("like", "BOOLEAN", "", ch)
EsQueryNode(ch) == CallNode("esquery", "BOOLEAN", "", ch)

LikeLeaves(td) ==
    {LikeNode(<<x, y>>) : x \in Operands(td), y \in Operands(td)}
    \cup {LikeNode(<<>>), LikeNode(<<Slot1(td)>>), LikeNode(<<StrLit>>),
          LikeNode(<<Slot1(td), StrLit, StrLit>>)}

EsQueryLeaves(td) ==
    {EsQueryNode(<<Slot1(td), q>>) :
        q \in {ValidQueryLit, BadQueryLit, ConcatCall, Slot1(td)}}
    \cup {EsQueryNode(<<>>), EsQueryNode(<<Slot1(td)>>)}

SetValues == {"NULL", "1", "2"}
HybridSets == UNION {[1..n -> SetValues] : n \in 0..MaxSetLen}

InColumns(td) ==
    SlotRefs(td) \cup {CastNode(ty, r) : ty \in CastTypes, r \in SlotRefs(td)}
    \cup {IntLit, CastNode("INT", IntLit)}

InLeaves(td) ==
    {InNode(o, o = "FILTER_NOT_IN", hs, <<c>>) :
        o \in {"FILTER_IN", "FILTER_NOT_IN"}, hs \in HybridSets, c \in InColumns(td)}
    \cup {InNode("FILTER_NEW_IN", b, <<"1">>, <<Slot1(td)>>) : b \in BOOLEAN}
    \cup {InNode("FILTER_IN", FALSE, <<"1">>, <<>>)}

MalformedCompounds(td) ==
    {CompoundNode("COMPOUND_OR", <<>>),
     CompoundNode("COMPOUND_OR", <<BinaryNode("GT", <<Slot1(td), IntLit>>)>>),
     CompoundNode("COMPOUND_AND", <<>>),
     CompoundNode("COMPOUND_NOT", <<BinaryNode("GT", <<Slot1(td), IntLit>>)>>)}

OtherLeaves(td) ==
    {OtherNode("IS_NULL_PRED"), CallNode("abs", "INT", "", <<>>),
     CallNode("abs", "INT", "", <<Slot1(td)>>), Slot1(td), IntLit}

Leaves(td) ==
    BinaryLeaves(td) \cup LikeLeaves(td) \cup EsQueryLeaves(td) \cup InLeaves(td)
    \cup MalformedCompounds(td) \cup OtherLeaves(td)

\* One leaf of each shape per column reference, for every tuple descriptor.
RefLeaves(td) ==
    UNION {{BinaryNode("GT", <<r, IntLit>>), BinaryNode("LT", <<IntLit, r>>),
            LikeNode(<<r, StrLit>>), LikeNode(<<StrLit, r>>),
            InNode("FILTER_IN", FALSE, <<"1", "2">>, <<r>>)}
           \cup {InNode("FILTER_IN", FALSE, <<"2">>, <<CastNode(ty, r)>>) :
                    ty \in CastTypes} : r \in SlotRefs(td)}

CoreLeaves ==
    {BinaryNode("GT", <<Slot1(CoreTupleDesc), IntLit>>),
     LikeNode(<<SlotRefNode(2, "VARCHAR"), StrLit>>),
     InNode("FILTER_NOT_IN", TRUE, <<"2", "1">>, <<Slot1(CoreTupleDesc)>>),
     EsQueryNode(<<Slot1(CoreTupleDesc), ValidQueryLit>>),
     EsQueryNode(<<Slot1(CoreTupleDesc), BadQueryLit>>),
     OtherNode("IS_NULL_PRED")}

\* The leaves of the deeper trees: a comparison, an accepted and a rejected
\* esquery.
ChainLeaves ==
    {BinaryNode("GT", <<Slot1(CoreTupleDesc), IntLit>>),
     EsQueryNode(<<Slot1(CoreTupleDesc), ValidQueryLit>>),
     EsQueryNode(<<Slot1(CoreTupleDesc), BadQueryLit>>)}

RECURSIVE TreesWith(_)
\* The binary OR/AND trees with exactly n chain leaves.
TreesWith(n) ==
    IF n = 1 THEN ChainLeaves
    ELSE UNION {{CompoundNode(o, <<l, r>>) :
                    o \in CompoundOps, l \in TreesWith(k), r \in TreesWith(n - k)} :
                k \in 1..(n - 1)}

\* An OR or AND over a core leaf and another core leaf or a malformed or
\* failing node, in both orders.
MixedTrees ==
    LET bad == MalformedCompounds(CoreTupleDesc)
               \cup {LikeNode(<<>>), EsQueryNode(<<>>),
                     LikeNode(<<Slot1(CoreTupleDesc), SlotRefNode(2, "VARCHAR")>>),
                     InNode("FILTER_IN", FALSE, <<"1", "NULL">>, <<Slot1(CoreTupleDesc)>>)}
    IN UNION {{CompoundNode(o, <<l, m>>), CompoundNode(o, <<m, l>>)} :
                 o \in CompoundOps, l \in CoreLeaves, m \in bad \cup CoreLeaves}

\* ------------------------------------------------------ paths and nodes
RECURSIVE ValidPath(_, _)
ValidPath(n, p) ==
    IF p = <<>> THEN TRUE
    ELSE /\ Head(p) \in 1..Len(n.children)
         /\ ValidPath(n.children[Head(p)], Tail(p))

RECURSIVE NodeAt(_, _)
NodeAt(n, p) == IF p = <<>> THEN n ELSE NodeAt(n.children[Head(p)], Tail(p))

\* ---------------------------------------------------------------- state
VARIABLES
    _tuple_desc,        \* the slots of the tuple descriptor
    root,               \* _context->root(), the conjunct
    _disjuncts,         \* the descriptor list
    _es_query_status,   \* "OK" or "FAIL"
    pc,                 \* "idle", or "running" inside build_disjuncts_list()
    stack,              \* the nodes the recursion has still to classify
    result,             \* status returned by the last call ("NONE" before)
    calls,              \* number of build_disjuncts_list() calls started
    base_len,           \* length of _disjuncts when the current call began
    visited,            \* nodes classified by the current call, in order
    rejected            \* check_es_query rejected a node in the current call

vars == <<_tuple_desc, root, _disjuncts, _es_query_status, pc, stack, result,
          calls, base_len, visited, rejected>>

\* The state after EsPredicate::EsPredicate.
Init ==
    /\ \/ /\ _tuple_desc \in TupleDescs
          /\ root \in RefLeaves(_tuple_desc)
       \/ /\ _tuple_desc = CoreTupleDesc
          /\ root \in Leaves(CoreTupleDesc) \cup MixedTrees
       \/ \E n \in 2..MaxLeaves, k \in 1..MaxLeaves, o \in CompoundOps :
             /\ k < n
             /\ \E l \in TreesWith(k), r \in TreesWith(n - k) :
                   root = CompoundNode(o, <<l, r>>)
             /\ _tuple_desc = CoreTupleDesc
    /\ _disjuncts = <<>>
    /\ _es_query_status = "OK"
    /\ pc = "idle"
    /\ stack = <<>>
    /\ result = "NONE"
    /\ calls = 0
    /\ base_len = 0
    /\ visited = <<>>
    /\ rejected = FALSE

\* ---------------------------------------------------------- descriptors
ExtLiteral(ty, v) == [type |-> ty, value |-> v]

ExtPredicate(nt, col, ty, o, notin, f, vals, ok, from) ==
    [node_type |-> nt, col |-> col, type |-> ty, op |-> o, is_not_in |-> notin,
     func_name |-> f, values |-> vals, validated |-> ok, origin |-> from]

ExtBinaryPredicate(col, ty, o, lit, from) ==
    ExtPredicate("BINARY_PRED", col, ty, o, FALSE, "", <<lit>>, FALSE, from)
ExtFunction(f, vals, ok, from) ==
    ExtPredicate("FUNCTION_CALL", "", "INVALID_TYPE", "INVALID_OPCODE", FALSE, f,
                 vals, ok, from)
ExtLikePredicate(col, ty, lit, from) ==
    ExtPredicate("LIKE_PRED", col, ty, "INVALID_OPCODE", FALSE, "", <<lit>>, FALSE, from)
ExtInPredicate(notin, col, ty, vals, from) ==
    ExtPredicate("IN_PRED", col, ty, "INVALID_OPCODE", notin, "", vals, FALSE, from)

\* -------------------------------------------------------------- helpers
NullSlot == [id |-> 0, col_name |-> "", type |-> "INVALID_TYPE"]

\* The first slot of the tuple descriptor with the given id, or nullptr.
get_slot_desc(sid) ==
    LET hits == {i \in 1..Len(_tuple_desc) : _tuple_desc[i].id = sid}
    IN IF hits = {} THEN NullSlot
       ELSE _tuple_desc[CHOOSE i \in hits : \A j \in hits : i <= j]

is_literal_node(expr) ==
    expr.node_type \in {"BOOL_LITERAL", "INT_LITERAL", "LARGE_INT_LITERAL",
                        "FLOAT_LITERAL", "DECIMAL_LITERAL", "STRING_LITERAL",
                        "DATE_LITERAL"}

is_match_func(conjunct) ==
    conjunct.node_type = "FUNCTION_CALL" /\ conjunct.fn = "esquery"

is_date_type(ty) == ty \in {"DATE", "DATETIME"}
is_string_type(ty) == ty \in {"CHAR", "VARCHAR"}

ignore_cast(slot, expr) ==
    \/ is_date_type(slot.type) /\ is_date_type(expr.type)
    \/ is_string_type(slot.type) /\ is_string_type(expr.type)

RECURSIVE type_without_cast(_)
type_without_cast(expr) ==
    IF expr.op = "CAST" THEN type_without_cast(expr.children[1]) ELSE expr.node_type

\* _context->get_value(expr, NULL): a literal yields its payload and a call
\* over constants its value; a column reference (bare or under a cast) reads
\* its tuple through the null row pointer, and the process dies.
get_value(expr) ==
    IF expr.node_type \in {"SLOT_REF", "CAST_EXPR"} THEN {"CRASH"}
    ELSE {expr.val}

\* BooleanQueryBuilder::check_es_query: accepts a well-formed query payload.
check_es_query(predicate) ==
    IF predicate.values[1].value = ValidQuery THEN "OK" ELSE "FAIL"

\* The slot id read through (SlotRef*)(conjunct->get_child(0)): the child's
\* own id when it is a SlotRef; when it is a cast node the read is outside
\* the object and yields any id.
cast_slot_id(expr) ==
    IF expr.node_type = "SLOT_REF" THEN {expr.slot_id} ELSE 0..(MaxSlots + 1)

\* The operator mirrored when the column is the right child.
binary_op_flipped(conjunct, idx) ==
    IF idx = 0 THEN conjunct.op
    ELSE IF conjunct.op = "LT" THEN "GT" ELSE "LT"

\* The operator recorded for a comparison whose column is child idx (0 or 1).
binary_op(conjunct, idx) == conjunct.op

IsNullValueNever(v) == FALSE

IsNullValue(v) == v = "NULL"

RECURSIVE in_pred_values(_, _, _)
\* The iteration of the hybrid set: stops with has_null as soon as an element
\* is null, else collects the literals typed by the column, in the set's
\* order.
in_pred_values(hs, ty, acc) ==
    IF hs = <<>> THEN [has_null |-> FALSE, values |-> acc]
    ELSE IF IsNullValue(Head(hs)) THEN [has_null |-> TRUE, values |-> acc]
    ELSE in_pred_values(Tail(hs), ty, Append(acc, ExtLiteral(ty, Head(hs))))

IsCompoundOrAlways(conjunct) == TRUE

IsCompoundOr(conjunct) == conjunct.op = "COMPOUND_OR"

\* Child 1 before child 0.
CompoundFramesSwapped(p) == <<p \o <<2>>, p \o <<1>>>>

\* The recursive calls of an OR node at path p: child 0, then child 1.
CompoundFrames(p) == <<p \o <<1>>, p \o <<2>>>>

ValidationFailedNever(status) == FALSE

ValidationFailed(status) == status # "OK"


\* ------------------------------------------------- returns of one frame
\* The current invocation returns Status::OK with disjunct list d: the
\* recursion goes on with the next pending node, and the call returns OK
\* when there is none.
ReturnOK(d) ==
    /\ _disjuncts' = d
    /\ stack' = Tail(stack)
    /\ IF Tail(stack) = <<>>
       THEN pc' = "idle" /\ result' = "OK"
       ELSE UNCHANGED <<pc, result>>

\* The current invocation returns a failure status: every enclosing OR node
\* returns it at once, and so does the call.
ReturnFail ==
    /\ UNCHANGED _disjuncts
    /\ stack' = <<>>
    /\ pc' = "idle"
    /\ result' = "FAIL"

\* The process dies inside the call.
Crash ==
    /\ UNCHANGED _disjuncts
    /\ stack' = <<>>
    /\ pc' = "idle"
    /\ result' = "CRASH"

\* A read of a child that does not exist: any of the outcomes.
Undefined == Crash \/ ReturnFail \/ ReturnOK(_disjuncts)

Running == pc = "running" /\ stack # <<>>
Classifying == Running /\ ValidPath(root, Head(stack))
Cur == NodeAt(root, Head(stack))

Visit ==
    /\ visited' = Append(visited, Head(stack))
    /\ UNCHANGED <<_tuple_desc, root, calls, base_len>>

\* -------------------------------------------------------------- actions
\* EsPredicate::build_disjuncts_list(): start the walk at the root.
Call ==
    /\ pc = "idle"
    /\ result # "CRASH"
    /\ calls < MaxCalls
    /\ pc' = "running"
    /\ stack' = <<NoPath>>
    /\ result' = "NONE"
    /\ calls' = calls + 1
    /\ base_len' = Len(_disjuncts)
    /\ visited' = <<>>
    /\ rejected' = FALSE
    /\ UNCHANGED <<_tuple_desc, root, _disjuncts, _es_query_status>>

\* The index (0 or 1) of the child taken as the column, -1 when neither is.
SlotRefChild(conjunct) ==
    IF conjunct.children[1].node_type = "SLOT_REF" THEN 0
    ELSE IF conjunct.children[2].node_type = "SLOT_REF" THEN 1
    ELSE -1

\* A BINARY_PRED node.
BinaryPred ==
    /\ Classifying
    /\ Cur.node_type = "BINARY_PRED"
    /\ Visit
    /\ UNCHANGED <<_es_query_status, rejected>>
    /\ LET conjunct == Cur
       IN IF Len(conjunct.children) # 2 THEN ReturnFail
          ELSE IF SlotRefChild(conjunct) = -1 THEN ReturnFail
          ELSE LET idx == SlotRefChild(conjunct)
                   slotRef == conjunct.children[idx + 1]
                   expr == conjunct.children[2 - idx]
                   slot_desc == get_slot_desc(slotRef.slot_id)
               IN IF slot_desc = NullSlot THEN ReturnFail
                  ELSE IF ~is_literal_node(expr) THEN ReturnFail
                  ELSE \E v \in get_value(expr) :
                         ReturnOK(Append(_disjuncts,
                             ExtBinaryPredicate(slot_desc.col_name, slot_desc.type,
                                 binary_op(conjunct, idx),
                                 ExtLiteral(expr.type, v), Head(stack))))

\* A FUNCTION_CALL node named "esquery".
EsQuery ==
    /\ Classifying
    /\ is_match_func(Cur)
    /\ Visit
    /\ LET conjunct == Cur
       IN IF Len(conjunct.children) < 2
          THEN Undefined /\ UNCHANGED <<_es_query_status, rejected>>
          ELSE LET expr == conjunct.children[2]
               IN \E v \in get_value(expr) :
                    IF v = "CRASH"
                    THEN Crash /\ UNCHANGED <<_es_query_status, rejected>>
                    ELSE LET unchecked == ExtFunction(conjunct.fn,
                                 <<ExtLiteral(expr.type, v)>>, FALSE, Head(stack))
                             checked == [unchecked EXCEPT !.validated = TRUE]
                         IN IF _es_query_status = "OK"
                            THEN /\ _es_query_status' = check_es_query(unchecked)
                                 /\ rejected' = (rejected \/ check_es_query(unchecked) # "OK")
                                 /\ IF ValidationFailed(check_es_query(unchecked))
                                    THEN ReturnFail
                                    ELSE ReturnOK(Append(_disjuncts, checked))
                            ELSE /\ ReturnOK(Append(_disjuncts, unchecked))
                                 /\ UNCHANGED <<_es_query_status, rejected>>

\* Any other FUNCTION_CALL node: "like" or a failure.
FunctionCall ==
    /\ Classifying
    /\ Cur.node_type = "FUNCTION_CALL"
    /\ ~is_match_func(Cur)
    /\ Visit
    /\ UNCHANGED <<_es_query_status, rejected>>
    /\ LET conjunct == Cur
       IN IF conjunct.fn # "like" THEN ReturnFail
          ELSE IF Len(conjunct.children) < 2 THEN Undefined
          ELSE IF SlotRefChild(conjunct) = -1 THEN ReturnFail
          ELSE LET idx == SlotRefChild(conjunct)
                   slotRef == conjunct.children[idx + 1]
                   expr == conjunct.children[2 - idx]
                   slot_desc == get_slot_desc(slotRef.slot_id)
               IN IF slot_desc = NullSlot THEN ReturnFail
                  ELSE IF expr.type \notin {"VARCHAR", "CHAR"} THEN ReturnFail
                  ELSE \E v \in get_value(expr) :
                         IF v = "CRASH" THEN Crash
                         ELSE ReturnOK(Append(_disjuncts,
                                  ExtLikePredicate(slot_desc.col_name, slot_desc.type,
                                      ExtLiteral(expr.type, v), Head(stack))))

\* An IN_PRED node.
InPred ==
    /\ Classifying
    /\ Cur.node_type = "IN_PRED"
    /\ Visit
    /\ UNCHANGED <<_es_query_status, rejected>>
    /\ LET conjunct == Cur
       IN IF conjunct.op \notin {"FILTER_IN", "FILTER_NOT_IN"} THEN ReturnFail
          ELSE IF Len(conjunct.children) < 1 THEN Undefined
          ELSE IF type_without_cast(conjunct.children[1]) # "SLOT_REF" THEN ReturnFail
          ELSE \E sid \in cast_slot_id(conjunct.children[1]) :
                 LET slot_desc == get_slot_desc(sid)
                     iter == in_pred_values(conjunct.set, slot_desc.type, <<>>)
                 IN IF slot_desc = NullSlot THEN ReturnFail
                    ELSE IF /\ conjunct.children[1].type # slot_desc.type
                            /\ ~ignore_cast(slot_desc, conjunct.children[1])
                         THEN ReturnFail
                    ELSE IF iter.has_null THEN ReturnFail
                    ELSE ReturnOK(Append(_disjuncts,
                             ExtInPredicate(conjunct.is_not_in, slot_desc.col_name,
                                 slot_desc.type, iter.values, Head(stack))))

\* A COMPOUND_PRED node: its two children are classified next, in order.
CompoundPred ==
    /\ Classifying
    /\ Cur.node_type = "COMPOUND_PRED"
    /\ Visit
    /\ UNCHANGED <<_es_query_status, rejected>>
    /\ IF ~IsCompoundOr(Cur) THEN ReturnFail
       ELSE /\ stack' = CompoundFrames(Head(stack)) \o Tail(stack)
            /\ UNCHANGED <<_disjuncts, pc, result>>

\* get_child(i) of an OR node that has no child i.
MissingChild ==
    /\ Running
    /\ ~ValidPath(root, Head(stack))
    /\ Visit
    /\ UNCHANGED <<_es_query_status, rejected>>
    /\ Undefined

\* Any other node type.
Unsupported ==
    /\ Classifying
    /\ Cur.node_type \notin {"BINARY_PRED", "FUNCTION_CALL", "IN_PRED", "COMPOUND_PRED"}
    /\ Visit
    /\ UNCHANGED <<_es_query_status, rejected>>
    /\ ReturnFail

Next ==
    \/ Call
    \/ BinaryPred
    \/ EsQuery
    \/ FunctionCall
    \/ InPred
    \/ CompoundPred
    \/ MissingChild
    \/ Unsupported

Spec == Init /\ [][Next]_vars

\* ------------------------------------------------- claims: definitions
Done == pc = "idle" /\ calls >= 1
LastVisited == visited[Len(visited)]
Slots == {_tuple_desc[i] : i \in 1..Len(_tuple_desc)}
Resolvable(ref) == ref.node_type = "SLOT_REF" /\ \E s \in Slots : s.id = ref.slot_id
SlotOf(ref) == CHOOSE s \in Slots : s.id = ref.slot_id
StringLiteral(expr) == is_literal_node(expr) /\ expr.type \in {"VARCHAR", "CHAR"}

RECURSIVE OrTree(_)
\* Every internal node is a COMPOUND_PRED with operator COMPOUND_OR over two
\* children.
OrTree(n) ==
    n.node_type = "COMPOUND_PRED" =>
        /\ n.op = "COMPOUND_OR"
        /\ Len(n.children) = 2
        /\ OrTree(n.children[1])
        /\ OrTree(n.children[2])

RECURSIVE LeafPaths(_, _)
\* The leaves of an OR tree, child 0 before child 1.
LeafPaths(n, p) ==
    IF n.node_type = "COMPOUND_PRED"
    THEN LeafPaths(n.children[1], p \o <<1>>) \o LeafPaths(n.children[2], p \o <<2>>)
    ELSE <<p>>

\* A leaf of one of the four pushable shapes.
Pushable(n) ==
    \/ /\ n.node_type = "BINARY_PRED"
       /\ Len(n.children) = 2
       /\ \E i \in 1..2 : Resolvable(n.children[i]) /\ is_literal_node(n.children[3 - i])
    \/ /\ n.node_type = "FUNCTION_CALL" /\ n.fn = "esquery"
       /\ Len(n.children) = 2
       /\ is_literal_node(n.children[2])
       /\ n.children[2].val = ValidQuery
    \/ /\ n.node_type = "FUNCTION_CALL" /\ n.fn = "like"
       /\ Len(n.children) = 2
       /\ \E i \in 1..2 : Resolvable(n.children[i]) /\ StringLiteral(n.children[3 - i])
    \/ /\ n.node_type = "IN_PRED"
       /\ n.op \in {"FILTER_IN", "FILTER_NOT_IN"}
       /\ Len(n.children) >= 1
       /\ Resolvable(n.children[1])
       /\ \A i \in 1..Len(n.set) : n.set[i] # "NULL"

DescriptorType(n) ==
    IF n.node_type = "FUNCTION_CALL" /\ n.fn = "like" THEN "LIKE_PRED" ELSE n.node_type

\* C1: on a fresh EsPredicate, a tree of COMPOUND_OR nodes over N pushable
\* leaves translates to OK and to exactly N descriptors, the i-th one made
\* from the i-th leaf in left-to-right order.
C1_Flattening ==
    (Done /\ calls = 1 /\ OrTree(root)
          /\ \A i \in 1..Len(LeafPaths(root, NoPath)) :
                Pushable(NodeAt(root, LeafPaths(root, NoPath)[i])))
    => /\ result = "OK"
       /\ Len(_disjuncts) = Len(LeafPaths(root, NoPath))
       /\ \A i \in 1..Len(_disjuncts) :
            /\ _disjuncts[i].origin = LeafPaths(root, NoPath)[i]
            /\ _disjuncts[i].node_type =
                   DescriptorType(NodeAt(root, LeafPaths(root, NoPath)[i]))

\* A mixed nesting of four pushable leaves has been flattened.
C1_Witness ==
    /\ Done /\ calls = 1 /\ result = "OK" /\ OrTree(root)
    /\ Len(_disjuncts) = 4
    /\ LeafPaths(root, NoPath) = <<<<1>>, <<2, 1, 1>>, <<2, 1, 2>>, <<2, 2>>>>
    /\ _disjuncts[1].node_type = "BINARY_PRED"
    /\ _disjuncts[2].node_type = "FUNCTION_CALL"

\* C2: once check_es_query has rejected an esquery node in a pass, the pass
\* has failed and the failure is recorded in _es_query_status; the result of
\* the pass is never OK.
C2_StickyFailure ==
    rejected => (result = "FAIL" /\ pc = "idle" /\ _es_query_status = "FAIL")

\* An esquery was rejected as child 0 of an OR whose child 1 is pushable.
C2_Witness ==
    /\ rejected /\ Done
    /\ root.node_type = "COMPOUND_PRED" /\ Len(root.children) = 2
    /\ LastVisited = <<1>>
    /\ Pushable(root.children[2])

\* C3: a failed call leaves no descriptor of that call in the list.
C3_NoPartialList ==
    (Done /\ result = "FAIL") => Len(_disjuncts) = base_len

\* C4: an IN_PRED node with a valid opcode over a column whose hybrid set
\* holds a null at any position fails and appends nothing.
C4_NullInSet ==
    [][(/\ Classifying
        /\ Cur.node_type = "IN_PRED"
        /\ Cur.op \in {"FILTER_IN", "FILTER_NOT_IN"}
        /\ Len(Cur.children) >= 1
        /\ type_without_cast(Cur.children[1]) = "SLOT_REF"
        /\ \E i \in 1..Len(Cur.set) : Cur.set[i] = "NULL")
       => (result' = "FAIL" /\ _disjuncts' = _disjuncts)]_vars

\* An IN over a resolvable column failed on a set whose only null is its
\* last element.
C4_Witness ==
    /\ Done /\ result = "FAIL"
    /\ ValidPath(root, LastVisited)
    /\ LET n == NodeAt(root, LastVisited)
       IN /\ n.node_type = "IN_PRED"
          /\ n.op = "FILTER_IN"
          /\ Len(n.children) = 1
          /\ Resolvable(n.children[1])
          /\ n.set = <<"1", "2", "NULL">>

\* C5: a COMPOUND_PRED node whose operator is not COMPOUND_OR fails the call
\* at once: nothing is appended and no child is classified.
C5_NonOrCompound ==
    [][(Classifying /\ Cur.node_type = "COMPOUND_PRED" /\ Cur.op # "COMPOUND_OR")
       => (/\ result' = "FAIL"
           /\ pc' = "idle"
           /\ stack' = <<>>
           /\ _disjuncts' = _disjuncts
           /\ visited' = Append(visited, Head(stack)))]_vars

\* A nested AND node with two children failed the call after a sibling had
\* appended a descriptor.
C5_Witness ==
    /\ Done /\ result = "FAIL"
    /\ LastVisited # NoPath
    /\ ValidPath(root, LastVisited)
    /\ NodeAt(root, LastVisited).node_type = "COMPOUND_PRED"
    /\ NodeAt(root, LastVisited).op = "COMPOUND_AND"
    /\ Len(NodeAt(root, LastVisited).children) = 2
    /\ Len(_disjuncts) > base_len


RECURSIVE WithoutCast(_)
WithoutCast(expr) ==
    IF expr.op = "CAST" THEN WithoutCast(expr.children[1]) ELSE expr

\* The column reference of a comparison, "like" or IN node.
ColumnRef(n) ==
    IF n.node_type = "IN_PRED" THEN WithoutCast(n.children[1])
    ELSE n.children[SlotRefChild(n) + 1]

\* C6: every descriptor over a column carries the name and type of the slot
\* whose id is the slot id of the node's column reference; a reference whose
\* id is in no slot yields no descriptor.
C6_ResolveById ==
    \A i \in 1..Len(_disjuncts) :
        _disjuncts[i].node_type \in {"BINARY_PRED", "LIKE_PRED", "IN_PRED"} =>
            LET ref == ColumnRef(NodeAt(root, _disjuncts[i].origin))
            IN /\ Resolvable(ref)
               /\ _disjuncts[i].col = SlotOf(ref).col_name
               /\ _disjuncts[i].type = SlotOf(ref).type

\* C7: a BINARY_PRED node over a resolvable column and a literal, in either
\* order, appends exactly one ExtBinaryPredicate with the column's name and
\* type, the literal and the node's own operator code.
C7_BinaryDescriptor ==
    [][(/\ Classifying
        /\ Cur.node_type = "BINARY_PRED"
        /\ Len(Cur.children) = 2
        /\ \E i \in 1..2 : Resolvable(Cur.children[i]) /\ is_literal_node(Cur.children[3 - i]))
       => LET i == CHOOSE j \in 1..2 : Resolvable(Cur.children[j])
              lit == Cur.children[3 - i]
              slot == SlotOf(Cur.children[i])
          IN /\ Len(_disjuncts') = Len(_disjuncts) + 1
             /\ SubSeq(_disjuncts', 1, Len(_disjuncts)) = _disjuncts
             /\ LET d == _disjuncts'[Len(_disjuncts')]
                IN /\ d.node_type = "BINARY_PRED"
                   /\ d.col = slot.col_name
                   /\ d.type = slot.type
                   /\ d.op = Cur.op
                   /\ d.values = <<[type |-> lit.type, value |-> lit.val]>>]_vars

\* A comparison whose literal is child 0 and whose column is child 1 has been
\* translated.
C7_Witness ==
    /\ Done /\ result = "OK"
    /\ root.node_type = "BINARY_PRED"
    /\ Len(root.children) = 2
    /\ is_literal_node(root.children[1])
    /\ Resolvable(root.children[2])
    /\ root.op = "LT"
    /\ Len(_disjuncts) >= 1
    /\ _disjuncts[1].op = "LT"

\* A "like" node with two children, one a column reference and the other not
\* a literal node.
LikeOverNonLiteral(n) ==
    /\ n.node_type = "FUNCTION_CALL" /\ n.fn = "like"
    /\ Len(n.children) = 2
    /\ SlotRefChild(n) # -1
    /\ ~is_literal_node(n.children[2 - SlotRefChild(n)])

\* C8: a LikePredicate comes only from a "like" node over a column reference
\* and a literal node of type VARCHAR or CHAR, and a call that meets a "like"
\* node whose other operand is not a literal node does not return OK.
C8_LikeNeedsLiteral ==
    /\ \A i \in 1..Len(_disjuncts) :
          _disjuncts[i].node_type = "LIKE_PRED" =>
              LET n == NodeAt(root, _disjuncts[i].origin)
              IN /\ Len(n.children) >= 2
                 /\ SlotRefChild(n) # -1
                 /\ StringLiteral(n.children[2 - SlotRefChild(n)])
    /\ (Done /\ \E i \in 1..Len(visited) :
                  /\ ValidPath(root, visited[i])
                  /\ LikeOverNonLiteral(NodeAt(root, visited[i])))
       => result # "OK"

\* A comparison, "like", "esquery" or OR node with fewer than two children.
TooFewChildren(n) ==
    /\ \/ n.node_type \in {"BINARY_PRED", "COMPOUND_PRED"}
       \/ n.node_type = "FUNCTION_CALL" /\ n.fn \in {"like", "esquery"}
    /\ Len(n.children) < 2

\* C9: every call ends with OK or a failure status and reads no child that
\* does not exist; a node with fewer than two children fails the call.
C9_NoMissingChildRead ==
    Done =>
        /\ result \in {"OK", "FAIL"}
        /\ \A i \in 1..Len(visited) :
              /\ ValidPath(root, visited[i])
              /\ TooFewChildren(NodeAt(root, visited[i])) => result = "FAIL"

\* C10: every ExtFunction in the list was accepted by check_es_query before
\* it was appended.
C10_FunctionsValidated ==
    \A i \in 1..Len(_disjuncts) :
        _disjuncts[i].node_type = "FUNCTION_CALL" => _disjuncts[i].validated

====
